---- MODULE Spec2Model ----
(***************************************************************************)
(* cloudtail: the Controller of main.go (stash map, notifier list, one     *)
(* sync.RWMutex), its HTTP handlers, Load, and the two notifiers of the    *)
(* notifier package.  The main goroutine runs Load and then serves; each   *)
(* handler goroutine runs testHandler or stashPOSTHandler step by step.    *)
(***************************************************************************)
EXTENDS Integers, Sequences, FiniteSets, TLC

(* ------------------------------ bounds -------------------------------- *)
\* the number of stashes registered in a run
MaxStashes == 2

\* the goroutines net/http runs handlers on: at most three requests are in
\* flight at a time, h1 serving /test, h2 serving /stash and h3 serving either
TestGoroutines == {"h1", "h3"}
StashGoroutines == {"h2", "h3"}
Handlers == TestGoroutines \cup StashGoroutines

(* ------------------------------- data --------------------------------- *)
\* a nil *string of cloudtrail.Event
Nil == "<nil>"
\* no goroutine
None == "<none>"

\* aws.StringValue: the value a *string points to, "" for nil
StringValue(p) == IF p = Nil THEN "" ELSE p

\* Stash with the reserved fields at their zero values
MkStash(eventName, username) ==
    [EventName |-> eventName, Username |-> username, TTL |-> 0,
     Expiration |-> 0, Regex |-> "", ResourceName |-> "", ResourceType |-> "",
     Description |-> "", Destinations |-> <<>>]

\* cloudtrail.Event: the three fields the program reads
MkEvent(id, eventName, username) ==
    [EventId |-> id, EventName |-> eventName, Username |-> username]

sEmpty == MkStash("", "")
sName == MkStash("DeleteBucket", "")
sUser == MkStash("", "alice")

\* stashes a client submits to /stash
StashSet == {sEmpty, sName, sUser}

eDelete == MkEvent("e1", "DeleteBucket", Nil)
eBlank == MkEvent(Nil, Nil, "")

\* events a client submits to /test
EventSet == {eDelete, eBlank}

\* a discard that forgets the non-empty guards
DiscardNoGuard(s, event, dest) ==
    \/ s.EventName = StringValue(event.EventName)
    \/ s.Username = StringValue(event.Username)

\* a discard that applies a stash only to its listed destinations
DiscardByDest(s, event, dest) ==
    /\ \/ s.EventName # "" /\ s.EventName = StringValue(event.EventName)
       \/ s.Username # "" /\ s.Username = StringValue(event.Username)
    /\ \/ s.Destinations = <<>>
       \/ \E k \in DOMAIN s.Destinations : s.Destinations[k] = dest

\* Stash.discard
Discard(s, event, dest) ==
    IF s.EventName # "" /\ s.EventName = StringValue(event.EventName)
    THEN TRUE
    ELSE IF s.Username # "" /\ s.Username = StringValue(event.Username)
         THEN TRUE
         ELSE FALSE

(* ----------------------------- notifiers ------------------------------ *)
HipchatDefaultEndoint == "https://api.hipchat.com"

\* the value of a map[string]string at a key, "" when the key is absent
MapGet(m, k) == IF k \in DOMAIN m THEN m[k] ELSE ""

\* a NewHipchat that leaves an empty endpoint as it is
NewHipchatNoDefault(config) ==
    LET room == MapGet(config, "room")
        token == MapGet(config, "token")
        from == MapGet(config, "from")
        endpoint == MapGet(config, "endpoint")
    IN IF room = "" THEN [err |-> "missing room"]
       ELSE IF token = "" THEN [err |-> "missing token"]
       ELSE IF from = "" THEN [err |-> "missing from"]
       ELSE [err |-> Nil,
             h |-> [kind |-> "hipchat", Endpoint |-> endpoint,
                    RoomID |-> room, Token |-> token, From |-> from]]

\* a NewHipchat that does not check the token
NewHipchatNoTokenCheck(config) ==
    LET room == MapGet(config, "room")
        token == MapGet(config, "token")
        from == MapGet(config, "from")
        endpoint == MapGet(config, "endpoint")
    IN IF room = "" THEN [err |-> "missing room"]
       ELSE IF from = "" THEN [err |-> "missing from"]
       ELSE [err |-> Nil,
             h |-> [kind |-> "hipchat",
                    Endpoint |-> IF endpoint = "" THEN HipchatDefaultEndoint
                                 ELSE endpoint,
                    RoomID |-> room, Token |-> token, From |-> from]]

\* NewHipchat: the *Hipchat built from a configuration, or the error
NewHipchat(config) ==
    LET room == MapGet(config, "room")
        token == MapGet(config, "token")
        from == MapGet(config, "from")
        endpoint == MapGet(config, "endpoint")
    IN IF room = "" THEN [err |-> "missing room"]
       ELSE IF token = "" THEN [err |-> "missing token"]
       ELSE IF from = "" THEN [err |-> "missing from"]
       ELSE [err |-> Nil,
             h |-> [kind |-> "hipchat",
                    Endpoint |-> IF endpoint = "" THEN HipchatDefaultEndoint
                                 ELSE endpoint,
                    RoomID |-> room, Token |-> token, From |-> from]]

\* &notifier.Stdout{}: enc is nil
NewStdout == [kind |-> "stdout", enc |-> Nil]

\* Stdout.Name, Hipchat.Name
Name(nt) == IF nt.kind = "stdout" THEN "stdout" ELSE "Hipchat"

\* Hipchat.Send: the error value for the outcome of the HTTP round trip
HipchatSend(doFails, readFails, statusCode) ==
    IF doFails THEN "err"
    ELSE IF statusCode >= 300 THEN "err"
    ELSE "ok"

\* HTTP status codes the chat server answers with
StatusCodes == {200, 299, 300, 404}

(* --------------------------- configurations --------------------------- *)
\* hipchat configurations: complete, with an endpoint, without token, with an
\* empty room
hcFull == [k \in {"room", "token", "from"} |->
             IF k = "room" THEN "ops" ELSE IF k = "token" THEN "secret" ELSE "cloudtail"]
hcEndpoint == [k \in {"room", "token", "from", "endpoint"} |->
             IF k = "room" THEN "ops" ELSE IF k = "token" THEN "secret"
             ELSE IF k = "from" THEN "cloudtail" ELSE "http://chat.local"]
hcNoToken == [k \in {"room", "from"} |-> IF k = "room" THEN "ops" ELSE "cloudtail"]
hcEmptyRoom == [k \in {"room", "token", "from"} |->
             IF k = "room" THEN "" ELSE IF k = "token" THEN "secret" ELSE "cloudtail"]
noConf == [k \in {} |-> ""]

\* the type names a configuration file may use, with the configurations tried
TypeConfigs(name) ==
    IF name = "hipchat" THEN {hcFull, hcNoToken}
    ELSE {noConf}

\* Config.Notifiers values: maps from type name to configuration
NotifierConfigs ==
    UNION { [names -> {hcFull, hcNoToken, noConf}]
            : names \in SUBSET {"stdout", "hipchat", "syslog"} }

ConfigSet ==
    { c \in NotifierConfigs : \A k \in DOMAIN c : c[k] \in TypeConfigs(k) }

(* ------------------------------- state -------------------------------- *)
\* main runs Load and ListenAndServe; the handlers run the requests
Goroutines == Handlers \cup {"main"}

VARIABLES
    pc,         \* each goroutine's position in its code
    config,     \* Load: config.Notifiers as decoded from the file given with -f
    todo,       \* Load: the entries of config.Notifiers the range has not visited
    pending,    \* Load: the notifier passed to the addNotifier call in progress
    stashes,    \* Controller.stashes: map[int]Stash
    notifiers,  \* Controller.notifiers
    regOrder,   \* history: notifier names in the order addNotifier appended them
    mu,         \* Controller.mu: sync.RWMutex
    ev,         \* testHandler: the decoded event
    idx,        \* processEvent: index of the notifier the range is at
    calls,      \* history: the Send calls of the processEvent call, <<index, result>>
    snap,       \* history: stashes and notifier names when the read lock was taken
    arg,        \* stashPOSTHandler: the decoded stash
    count,      \* addStash: the local variable stashes (len(c.stashes))
    resp,       \* the handler's HTTP response
    idLog,      \* history: ids returned by addStash, in order of return
    dpc, dStash, dEvent, dDest, dResult,  \* one call of Stash.discard
    hpc,        \* NewHipchat then Send on the result: position
    hConfig,    \* the map[string]string passed to NewHipchat
    hNew,       \* what NewHipchat returned
    hOut,       \* what the HTTP round trip of Send did
    hErr        \* what Send returned

ctlVars == <<pc, config, todo, pending, stashes, notifiers, regOrder, mu, ev, idx,
             calls, snap, arg, count, resp, idLog>>
discardVars == <<dpc, dStash, dEvent, dDest, dResult>>
hipchatVars == <<hpc, hConfig, hNew, hOut, hErr>>
funVars == <<discardVars, hipchatVars>>
vars == <<pc, config, todo, pending, stashes, notifiers, regOrder, mu, ev, idx,
          calls, snap, arg, count, resp, idLog, dpc, dStash, dEvent, dDest, dResult,
          hpc, hConfig, hNew, hOut, hErr>>

\* the names of a notifier list, in order
Names(nts) == [i \in DOMAIN nts |-> Name(nts[i])]

NoSnap == [st |-> <<>>, nt |-> <<>>]
NoResp == [path |-> "", code |-> 0, id |-> 0]

\* New(): empty stash map, empty notifier list, unlocked mutex
InitCtl ==
    /\ pc = [g \in Goroutines |-> IF g = "main" THEN "main" ELSE "idle"]
    /\ pending = NewStdout
    /\ stashes = <<>>
    /\ notifiers = <<>>
    /\ regOrder = <<>>
    /\ mu = [w |-> None, writing |-> FALSE, readers |-> {}, blocked |-> {}]
    /\ ev = [t \in Handlers |-> eBlank]
    /\ idx = [t \in Handlers |-> 0]
    /\ calls = [t \in Handlers |-> <<>>]
    /\ snap = [t \in Handlers |-> NoSnap]
    /\ arg = [t \in Handlers |-> sEmpty]
    /\ count = [t \in Handlers |-> 0]
    /\ resp = [t \in Handlers |-> NoResp]
    /\ idLog = <<>>

InitDiscardIdle ==
    /\ dpc = "off"
    /\ dStash = sEmpty
    /\ dEvent = eBlank
    /\ dDest = "stdout"
    /\ dResult = FALSE

NoRoundTrip == [doFails |-> FALSE, readFails |-> FALSE, statusCode |-> 0]

InitHipchatIdle ==
    /\ hpc = "off"
    /\ hConfig = noConf
    /\ hNew = [err |-> Nil]
    /\ hOut = NoRoundTrip
    /\ hErr = Nil

\* the process starts with some configuration file, or none
Init ==
    /\ InitCtl
    /\ todo \in ConfigSet
    /\ config = todo
    /\ InitDiscardIdle
    /\ InitHipchatIdle

(* ---------------------------- sync.RWMutex ----------------------------- *)
\* an RLock that returns whatever the writers do
RLockIgnoresWriters(m) == TRUE

\* an RLock that blocks only while a writer holds the lock, not while one
\* waits for it
RLockPrefersReaders(m) == ~m.writing

\* RLock blocks while a writer holds or has asked for the lock
\* (readerCount is negative from the writer's Lock call to its Unlock)
CanRLock(m) == m.w = None

\* a Lock that does not take rw.w
LockIgnoresWriters(m) == TRUE

\* Lock first takes rw.w, which one writer holds at a time
CanLock(m) == m.w = None

\* a Lock that returns while readers are active
LockIgnoresReaders(m) == TRUE

\* Lock then waits for the active readers to leave
CanWrite(m) == m.readers = {}

----
(* ----------------------------- main, Load ----------------------------- *)
\* main: no -f flag, c = New()
MainNew ==
    /\ pc["main"] = "main"
    /\ pc' = [pc EXCEPT !["main"] = "serving"]
    /\ todo' = noConf
    /\ config' = noConf
    /\ UNCHANGED <<pending, stashes, notifiers, regOrder, mu, ev, idx, calls,
                   snap, arg, count, resp, idLog>>
    /\ UNCHANGED funVars

\* main: -f given; the file cannot be opened or decoded, or Load starts its range
MainLoad ==
    /\ pc["main"] = "main"
    /\ \/ /\ pc' = [pc EXCEPT !["main"] = "load"]
          /\ UNCHANGED <<todo, config>>
       \/ /\ pc' = [pc EXCEPT !["main"] = "exited"]
          /\ todo' = noConf
          /\ config' = noConf
    /\ UNCHANGED <<pending, stashes, notifiers, regOrder, mu, ev, idx, calls,
                   snap, arg, count, resp, idLog>>
    /\ UNCHANGED funVars

\* the map m without key k
Without(m, k) == [x \in DOMAIN m \ {k} |-> m[x]]

\* Load: one iteration of the range over config.Notifiers, or its end
LoadRange ==
    /\ pc["main"] = "load"
    /\ IF DOMAIN todo = {}
       THEN /\ pc' = [pc EXCEPT !["main"] = "serving"]
            /\ UNCHANGED <<todo, pending>>
       ELSE \E sname \in DOMAIN todo :
              IF sname = "stdout"
              THEN /\ pending' = NewStdout
                   /\ todo' = Without(todo, sname)
                   /\ pc' = [pc EXCEPT !["main"] = "Lock"]
              ELSE IF sname = "hipchat" /\ NewHipchat(todo[sname]).err = Nil
              THEN /\ pending' = NewHipchat(todo[sname]).h
                   /\ todo' = Without(todo, sname)
                   /\ pc' = [pc EXCEPT !["main"] = "Lock"]
              ELSE /\ pc' = [pc EXCEPT !["main"] = "exited"]
                   /\ todo' = noConf
                   /\ UNCHANGED pending
    /\ UNCHANGED <<config, stashes, notifiers, regOrder, mu, ev, idx, calls,
                   snap, arg, count, resp, idLog>>
    /\ UNCHANGED funVars

\* an addNotifier that puts the new notifier first
PrependNotifier(nts, s) == <<s>> \o nts

\* an addNotifier that assigns the list instead of appending to it
ReplaceNotifier(nts, s) == <<s>>

\* addNotifier with the lock held: c.notifiers = append(c.notifiers, s)
AppendNotifier(nts, s) == Append(nts, s)

AddNotifier ==
    /\ pc["main"] = "append"
    /\ notifiers' = AppendNotifier(notifiers, pending)
    /\ regOrder' = Append(regOrder, Name(pending))
    /\ pc' = [pc EXCEPT !["main"] = "Unlock"]
    /\ UNCHANGED <<config, todo, pending, stashes, mu, ev, idx, calls,
                   snap, arg, count, resp, idLog>>
    /\ UNCHANGED funVars

(* ------------------------ Lock, Unlock (writers) ----------------------- *)
\* the goroutines inside or entering addStash
InAddStash == {t \in Handlers : pc[t] \in {"Lock", "LockWait", "len", "put", "Unlock"}}

\* c.mu.Lock(), first half: take rw.w and announce the writer to the readers
Lock(g) ==
    /\ pc[g] = "Lock"
    /\ CanLock(mu)
    /\ mu' = [mu EXCEPT !.w = g]
    /\ pc' = [pc EXCEPT ![g] = "LockWait"]
    /\ UNCHANGED <<config, todo, pending, stashes, notifiers, regOrder, ev, idx, calls,
                   snap, arg, count, resp, idLog>>
    /\ UNCHANGED funVars

\* c.mu.Lock(), second half: the active readers have left, Lock returns
LockWait(g) ==
    /\ pc[g] = "LockWait"
    /\ CanWrite(mu)
    /\ mu' = [mu EXCEPT !.writing = TRUE]
    /\ pc' = [pc EXCEPT ![g] = IF g = "main" THEN "append" ELSE "len"]
    /\ UNCHANGED <<config, todo, pending, stashes, notifiers, regOrder, ev, idx, calls,
                   snap, arg, count, resp, idLog>>
    /\ UNCHANGED funVars

\* the snapshot the history keeps for a reader that enters
TakeSnap == [st |-> stashes, nt |-> Names(notifiers)]

\* the deferred c.mu.Unlock(): the readers that blocked during the write are let
\* in, rw.w is released, and addStash / addNotifier returns; stashPOSTHandler
\* then writes "stash <id> added"
Unlock(g) ==
    /\ pc[g] = "Unlock"
    /\ mu' = [w |-> None, writing |-> FALSE,
              readers |-> mu.readers \cup mu.blocked, blocked |-> {}]
    /\ pc' = [x \in Goroutines |->
                IF x = g THEN (IF g = "main" THEN "load" ELSE "done")
                ELSE IF x \in mu.blocked THEN "range" ELSE pc[x]]
    /\ snap' = [t \in Handlers |-> IF t \in mu.blocked THEN TakeSnap ELSE snap[t]]
    /\ idx' = [t \in Handlers |-> IF t \in mu.blocked THEN 1 ELSE idx[t]]
    /\ IF g = "main"
       THEN UNCHANGED <<resp, idLog>>
       ELSE /\ resp' = [resp EXCEPT ![g] = [path |-> "/stash", code |-> 200, id |-> count[g] + 1]]
            /\ idLog' = Append(idLog, count[g] + 1)
    /\ UNCHANGED <<config, todo, pending, stashes, notifiers, regOrder, ev, calls,
                   arg, count>>
    /\ UNCHANGED funVars

(* -------------------- stashPOSTHandler, addStash ----------------------- *)
\* stashPOSTHandler: w.WriteHeader(http.StatusBadRequest) with the error text
StashBadRequest == [path |-> "/stash", code |-> 400, id |-> 0]

\* a stashPOSTHandler without the return after the 400
StashDecodedNoReturn(failed) == "Lock"

\* stashPOSTHandler after Decode: the error branch returns, otherwise addStash
\* is called
StashDecoded(failed) == IF failed THEN "done" ELSE "Lock"

\* a goroutine that is free takes a request to /stash.
\* stashPOSTHandler up to the call of addStash: the body decodes to a Stash,
\* or the decoder fails and the handler answers 400
StashPOSTHandler(t) ==
    /\ pc["main"] = "serving"
    /\ pc[t] \in {"idle", "done"}
    /\ \/ /\ Len(idLog) + Cardinality(InAddStash) < MaxStashes
          /\ \E s \in StashSet : arg' = [arg EXCEPT ![t] = s]
          /\ pc' = [pc EXCEPT ![t] = StashDecoded(FALSE)]
          /\ resp' = [resp EXCEPT ![t] = NoResp]
       \/ /\ resp' = [resp EXCEPT ![t] = StashBadRequest]
          /\ pc' = [pc EXCEPT ![t] = StashDecoded(TRUE)]
          /\ arg' = [arg EXCEPT ![t] = sEmpty]
    /\ count' = [count EXCEPT ![t] = 0]
    /\ UNCHANGED <<config, todo, pending, stashes, notifiers, regOrder, mu, ev, idx, calls,
                   snap, idLog>>
    /\ UNCHANGED funVars

\* addStash: stashes := len(c.stashes)
AddStashLen(t) ==
    /\ pc[t] = "len"
    /\ count' = [count EXCEPT ![t] = Cardinality(DOMAIN stashes)]
    /\ pc' = [pc EXCEPT ![t] = "put"]
    /\ UNCHANGED <<config, todo, pending, stashes, notifiers, regOrder, mu, ev, idx, calls,
                   snap, arg, resp, idLog>>
    /\ UNCHANGED funVars

\* an assignment of a new map holding only the new entry
MapReset(m, k, v) == [x \in {k} |-> v]

\* the map m with m[k] = v
MapPut(m, k, v) == [x \in DOMAIN m \cup {k} |-> IF x = k THEN v ELSE m[x]]

\* addStash: nextStash := stashes + 1; c.stashes[nextStash] = s
AddStashPut(t) ==
    /\ pc[t] = "put"
    /\ stashes' = MapPut(stashes, count[t] + 1, arg[t])
    /\ pc' = [pc EXCEPT ![t] = "Unlock"]
    /\ UNCHANGED <<config, todo, pending, notifiers, regOrder, mu, ev, idx, calls,
                   snap, arg, count, resp, idLog>>
    /\ UNCHANGED funVars

(* --------------------- testHandler, processEvent ----------------------- *)
\* testHandler: w.WriteHeader(http.StatusBadRequest) with the error text
TestBadRequest == [path |-> "/test", code |-> 400, id |-> 0]

\* a testHandler without the return after the 400
TestDecodedNoReturn(failed) == "RLock"

\* testHandler after Decode: the error branch returns, otherwise processEvent
\* is called
TestDecoded(failed) == IF failed THEN "done" ELSE "RLock"

\* a goroutine that is free takes a request to /test.
\* testHandler up to the call of processEvent: the body decodes to an event,
\* or the decoder fails and the handler answers 400 and returns
TestHandler(t) ==
    /\ pc["main"] = "serving"
    /\ pc[t] \in {"idle", "done"}
    /\ \/ /\ \E e \in EventSet : ev' = [ev EXCEPT ![t] = e]
          /\ pc' = [pc EXCEPT ![t] = TestDecoded(FALSE)]
          /\ resp' = [resp EXCEPT ![t] = NoResp]
       \/ /\ resp' = [resp EXCEPT ![t] = TestBadRequest]
          /\ pc' = [pc EXCEPT ![t] = TestDecoded(TRUE)]
          /\ UNCHANGED ev
    /\ arg' = [arg EXCEPT ![t] = sEmpty]
    /\ count' = [count EXCEPT ![t] = 0]
    /\ UNCHANGED <<config, todo, pending, stashes, notifiers, regOrder, mu, idx, calls,
                   snap, idLog>>
    /\ UNCHANGED funVars

\* processEvent: c.mu.RLock(), which returns at once or parks the goroutine
\* until the writer's Unlock
RLock(t) ==
    /\ pc[t] = "RLock"
    /\ IF CanRLock(mu)
       THEN /\ mu' = [mu EXCEPT !.readers = @ \cup {t}]
            /\ pc' = [pc EXCEPT ![t] = "range"]
            /\ idx' = [idx EXCEPT ![t] = 1]
            /\ snap' = [snap EXCEPT ![t] = TakeSnap]
       ELSE /\ mu' = [mu EXCEPT !.blocked = @ \cup {t}]
            /\ pc' = [pc EXCEPT ![t] = "blocked"]
            /\ UNCHANGED <<idx, snap>>
    /\ UNCHANGED <<config, todo, pending, stashes, notifiers, regOrder, ev, calls,
                   arg, count, resp, idLog>>
    /\ UNCHANGED funVars

\* the orders in which a range over a map with key set S can visit the keys
Orders(S) ==
    { o \in [1..Cardinality(S) -> S] : \A i, j \in DOMAIN o : i # j => o[i] # o[j] }

\* a stash loop without the break: the last stash visited decides
RECURSIVE ScanLastWins(_, _, _, _)
ScanLastWins(order, m, event, name) ==
    IF order = <<>> THEN FALSE
    ELSE IF Tail(order) = <<>> THEN Discard(m[Head(order)], event, name)
    ELSE ScanLastWins(Tail(order), m, event, name)

\* processEvent's inner loop, visiting the keys in the given order: discard is
\* set at the first stash whose discard is true, and the loop breaks
RECURSIVE ScanStashes(_, _, _, _)
ScanStashes(order, m, event, name) ==
    IF order = <<>> THEN FALSE
    ELSE IF Discard(m[Head(order)], event, name) THEN TRUE
    ELSE ScanStashes(Tail(order), m, event, name)

\* processEvent's outer range from notifier i on, up to the next call of
\* sv.Send: every notifier whose stash loop sets discard is skipped (`continue`).
\* The result is the set of the indexes the next Send can be for, over the
\* orders the map ranges can take; 0 stands for the end of the range
RECURSIVE NextSend(_, _)
NextSend(i, event) ==
    IF i > Len(notifiers) THEN {0}
    ELSE UNION { IF ScanStashes(order, stashes, event, Name(notifiers[i]))
                 THEN NextSend(i + 1, event)
                 ELSE {i}
                 : order \in Orders(DOMAIN stashes) }

\* goroutine t goes on with the outer range at notifier i: it calls Send on the
\* next notifier that is not discarded, or leaves the range
Advance(t, i) ==
    \E j \in NextSend(i, ev[t]) :
       IF j = 0
       THEN /\ pc' = [pc EXCEPT ![t] = "RUnlock"]
            /\ idx' = [idx EXCEPT ![t] = Len(notifiers) + 1]
            /\ UNCHANGED calls
       ELSE /\ pc' = [pc EXCEPT ![t] = "Send"]
            /\ idx' = [idx EXCEPT ![t] = j]
            /\ calls' = [calls EXCEPT ![t] = Append(@, <<j, "called">>)]

\* processEvent: the range starts, with the read lock held
Range(t) ==
    /\ pc[t] = "range"
    /\ Advance(t, 1)
    /\ UNCHANGED <<config, todo, pending, stashes, notifiers, regOrder, mu, ev,
                   snap, arg, count, resp, idLog>>
    /\ UNCHANGED funVars

\* a processEvent that returns at the first Send error
ReturnOnError(i, result) == IF result = "err" THEN Len(notifiers) + 1 ELSE i + 1

\* a processEvent that sends again to a notifier whose Send failed
RetryOnError(i, result) == IF result = "err" THEN i ELSE i + 1

\* processEvent after sv.Send on notifier i: the error branch logs and continues,
\* the ok branch logs and falls through; both go on with notifier i + 1
AfterSend(i, result) == IF result = "err" THEN i + 1 ELSE i + 1

\* the Send call of goroutine t returns result, and the range goes on
SendReturns(t, result) ==
    LET done == [calls EXCEPT ![t][Len(calls[t])] = <<idx[t], result>>]
    IN \E j \in NextSend(AfterSend(idx[t], result), ev[t]) :
         IF j = 0
         THEN /\ pc' = [pc EXCEPT ![t] = "RUnlock"]
              /\ idx' = [idx EXCEPT ![t] = Len(notifiers) + 1]
              /\ calls' = done
         ELSE /\ pc' = [pc EXCEPT ![t] = "Send"]
              /\ idx' = [idx EXCEPT ![t] = j]
              /\ calls' = [done EXCEPT ![t] = Append(@, <<j, "called">>)]

\* Hipchat.Send, from the call to the return: one POST, no retry
HipchatSendReturns(t) ==
    /\ pc[t] = "Send"
    /\ notifiers[idx[t]].kind = "hipchat"
    /\ \E doFails \in BOOLEAN, readFails \in BOOLEAN, code \in StatusCodes :
          SendReturns(t, HipchatSend(doFails, readFails, code))
    /\ UNCHANGED <<config, todo, pending, stashes, notifiers, regOrder, mu, ev,
                   snap, arg, count, resp, idLog>>
    /\ UNCHANGED funVars

\* Stdout.Send: if s.enc == nil
StdoutSend(t) ==
    /\ pc[t] = "Send"
    /\ notifiers[idx[t]].kind = "stdout"
    /\ pc' = [pc EXCEPT ![t] = IF notifiers[idx[t]].enc = Nil
                               THEN "NewEncoder" ELSE "Encode"]
    /\ UNCHANGED <<config, todo, pending, stashes, notifiers, regOrder, mu, ev, idx, calls,
                   snap, arg, count, resp, idLog>>
    /\ UNCHANGED funVars

\* Stdout.Send: s.enc = json.NewEncoder(os.Stdout) when the check saw nil, then
\* return s.enc.Encode(e), nil or the write error
StdoutEncode(t) ==
    /\ pc[t] \in {"NewEncoder", "Encode"}
    /\ notifiers' = IF pc[t] = "NewEncoder"
                    THEN [notifiers EXCEPT ![idx[t]].enc = "encoder"]
                    ELSE notifiers
    /\ \E result \in {"ok", "err"} : SendReturns(t, result)
    /\ UNCHANGED <<config, todo, pending, stashes, regOrder, mu, ev,
                   snap, arg, count, resp, idLog>>
    /\ UNCHANGED funVars

\* a testHandler that answers 500 when a Send of the call failed
TestResponseSurfacesError(sends) ==
    IF \E j \in DOMAIN sends : sends[j][2] = "err"
    THEN [path |-> "/test", code |-> 500, id |-> 0]
    ELSE [path |-> "/test", code |-> 200, id |-> 0]

\* testHandler after processEvent, whose Send calls were sends: processEvent
\* returns nothing and testHandler writes nothing, so the answer is 200
TestResponse(sends) == [path |-> "/test", code |-> 200, id |-> 0]

\* the deferred c.mu.RUnlock(); processEvent and testHandler return, and
\* net/http answers 200 with an empty body
RUnlock(t) ==
    /\ pc[t] = "RUnlock"
    /\ mu' = [mu EXCEPT !.readers = @ \ {t}]
    /\ resp' = [resp EXCEPT ![t] = TestResponse(calls[t])]
    /\ pc' = [pc EXCEPT ![t] = "done"]
    /\ ev' = [ev EXCEPT ![t] = eBlank]
    /\ idx' = [idx EXCEPT ![t] = 0]
    /\ calls' = [calls EXCEPT ![t] = <<>>]
    /\ snap' = [snap EXCEPT ![t] = NoSnap]
    /\ UNCHANGED <<config, todo, pending, stashes, notifiers, regOrder, arg, count, idLog>>
    /\ UNCHANGED funVars

(* --------------------------- specification ---------------------------- *)
Next ==
    \/ MainNew
    \/ MainLoad
    \/ LoadRange
    \/ AddNotifier
    \/ \E g \in Goroutines : Lock(g)
    \/ \E g \in Goroutines : LockWait(g)
    \/ \E g \in Goroutines : Unlock(g)
    \/ \E t \in StashGoroutines : StashPOSTHandler(t)
    \/ \E t \in StashGoroutines : AddStashLen(t)
    \/ \E t \in StashGoroutines : AddStashPut(t)
    \/ \E t \in TestGoroutines : TestHandler(t)
    \/ \E t \in TestGoroutines : RLock(t)
    \/ \E t \in TestGoroutines : Range(t)
    \/ \E t \in TestGoroutines : HipchatSendReturns(t)
    \/ \E t \in TestGoroutines : StdoutSend(t)
    \/ \E t \in TestGoroutines : StdoutEncode(t)
    \/ \E t \in TestGoroutines : RUnlock(t)

Spec == Init /\ [][Next]_vars

(* ----------------------------- scheduling ----------------------------- *)
\* the next step of main inside Load
MainStep ==
    \/ LoadRange
    \/ AddNotifier
    \/ Lock("main") \/ LockWait("main") \/ Unlock("main")

\* the next step of a handler goroutine inside addStash or processEvent; a Send
\* that has been called returns
HandlerStep(t) ==
    \/ Lock(t) \/ LockWait(t) \/ AddStashLen(t) \/ AddStashPut(t) \/ Unlock(t)
    \/ RLock(t) \/ Range(t) \/ HipchatSendReturns(t) \/ StdoutSend(t)
    \/ StdoutEncode(t) \/ RUnlock(t)

\* the Go scheduler runs every goroutine that can run; requests arrive or not
Fairness ==
    /\ WF_vars(MainStep)
    /\ \A t \in Handlers : WF_vars(HandlerStep(t))

\* the configurations progress is verified from: at most one notifier
LiveConfigs == {c \in ConfigSet : Cardinality(DOMAIN c) <= 1}

InitLive == Init /\ todo \in LiveConfigs

SpecLive == InitLive /\ [][Next]_vars /\ Fairness

(* ------------------- Stash.discard as a function ---------------------- *)
\* stashes with every combination of filters, reserved fields and destinations
DiscardStashes ==
    { [EventName |-> en, Username |-> un, TTL |-> r.ttl, Expiration |-> r.exp,
       Regex |-> r.re, ResourceName |-> r.rn, ResourceType |-> r.rt,
       Description |-> r.de, Destinations |-> ds] :
      en \in {"", "DeleteBucket", "deletebucket"},
      un \in {"", "alice"},
      r \in {[ttl |-> 0, exp |-> 0, re |-> "", rn |-> "", rt |-> "", de |-> ""],
             [ttl |-> 60, exp |-> 99, re |-> "Delete.*", rn |-> "logs",
              rt |-> "bucket", de |-> "noisy"]},
      ds \in {<<>>, <<"stdout">>} }

\* events with each name absent, empty or set
DiscardEvents ==
    { MkEvent(Nil, en, un) :
      en \in {Nil, "", "DeleteBucket", "CreateUser"},
      un \in {Nil, "", "alice", "Alice"} }

\* the names processEvent passes as dest
DestNames == {"stdout", "Hipchat"}

InitDiscard ==
    /\ InitCtl
    /\ todo = noConf
    /\ config = noConf
    /\ InitHipchatIdle
    /\ dpc = "call"
    /\ dStash \in DiscardStashes
    /\ dEvent \in DiscardEvents
    /\ dDest \in DestNames
    /\ dResult = FALSE

\* st.discard(event, name) is called and returns
DiscardCall ==
    /\ dpc = "call"
    /\ dResult' = Discard(dStash, dEvent, dDest)
    /\ dpc' = "return"
    /\ UNCHANGED <<dStash, dEvent, dDest>>
    /\ UNCHANGED ctlVars
    /\ UNCHANGED hipchatVars

NextDiscard == DiscardCall

SpecDiscard == InitDiscard /\ [][NextDiscard]_vars

(* -------------- NewHipchat and Hipchat.Send as functions --------------- *)
\* the values a configuration key is given
ConfigValues(k) ==
    IF k = "room" THEN {"", "ops"}
    ELSE IF k = "token" THEN {"", "secret"}
    ELSE IF k = "from" THEN {"", "cloudtail"}
    ELSE IF k = "endpoint" THEN {"", "http://chat.local"}
    ELSE {"purple"}

\* configurations with every key absent, empty or set, and a key NewHipchat
\* does not know
HipchatConfigs ==
    { c \in UNION { [keys -> {"", "ops", "secret", "cloudtail", "http://chat.local", "purple"}]
                    : keys \in SUBSET {"room", "token", "from", "endpoint", "color"} }
      : \A k \in DOMAIN c : c[k] \in ConfigValues(k) }

InitHipchat ==
    /\ InitCtl
    /\ todo = noConf
    /\ config = noConf
    /\ InitDiscardIdle
    /\ hpc = "NewHipchat"
    /\ hConfig \in HipchatConfigs
    /\ hNew = [err |-> Nil]
    /\ hOut = NoRoundTrip
    /\ hErr = Nil

\* NewHipchat(config) is called and returns
NewHipchatCall ==
    /\ hpc = "NewHipchat"
    /\ hNew' = NewHipchat(hConfig)
    /\ hpc' = IF NewHipchat(hConfig).err = Nil THEN "Send" ELSE "failed"
    /\ UNCHANGED <<hConfig, hOut, hErr>>
    /\ UNCHANGED ctlVars
    /\ UNCHANGED discardVars

\* h.Send(e) is called on the notifier built and returns: the round trip fails,
\* or answers with a status code and a body that can or cannot be read
HipchatSendCall ==
    /\ hpc = "Send"
    /\ \E doFails \in BOOLEAN, readFails \in BOOLEAN, code \in StatusCodes :
          /\ hOut' = [doFails |-> doFails, readFails |-> readFails, statusCode |-> code]
          /\ hErr' = HipchatSend(doFails, readFails, code)
    /\ hpc' = "returned"
    /\ UNCHANGED <<hConfig, hNew>>
    /\ UNCHANGED ctlVars
    /\ UNCHANGED discardVars

NextHipchat == NewHipchatCall \/ HipchatSendCall

SpecHipchat == InitHipchat /\ [][NextHipchat]_vars

(* ------------------------------ claims -------------------------------- *)
\* the reference match of a rule and an event: some set field of the rule
\* equals the event's field, which is present
Matches(rule, event) ==
    \/ rule.EventName # "" /\ event.EventName # Nil /\ event.EventName = rule.EventName
    \/ rule.Username # "" /\ event.Username # Nil /\ event.Username = rule.Username

\* goroutine t is inside processEvent with the read lock held
InCall(t) == pc[t] \in {"range", "Send", "NewEncoder", "Encode", "RUnlock"}

\* goroutine t is inside Send
InSend(t) == pc[t] \in {"Send", "NewEncoder", "Encode"}

\* processEvent of goroutine t has left its range and is about to return
Finished(t) == pc[t] = "RUnlock"

\* some stash registered when t's call started matches t's event
Suppressed(t) == \E k \in DOMAIN snap[t].st : Matches(snap[t].st[k], ev[t])

\* the notifier indexes of t's Send calls, in call order
CalledIdx(t) == [j \in DOMAIN calls[t] |-> calls[t][j][1]]

\* the goroutines inside the critical section of addStash or addNotifier
Writing == {g \in Goroutines : pc[g] \in {"append", "len", "put", "Unlock"}}

\* the goroutines inside the critical section of processEvent
Reading == {t \in TestGoroutines : InCall(t)}

\* C1: in a processEvent call for an event no registered stash matches, if Send
\* on a notifier A returned an error, Send has still been called on every
\* notifier B registered after A when the call ends.
C1_FailureIsolation ==
    \A t \in TestGoroutines :
      (Finished(t) /\ ~Suppressed(t)) =>
        \A a, b \in 1..Len(snap[t].nt) :
          (a < b /\ \E j \in DOMAIN calls[t] : calls[t][j] = <<a, "err">>)
            => \E j \in DOMAIN calls[t] : calls[t][j][1] = b

C1_Witness ==
    \E t \in TestGoroutines :
      /\ Finished(t) /\ ~Suppressed(t)
      /\ Len(calls[t]) = 2
      /\ calls[t][1] = <<1, "err">>
      /\ calls[t][2][1] = 2

\* C2: if at least one registered stash matches the event, the processEvent call
\* makes no Send call, whatever other stashes are registered and whatever order
\* the map range takes.
C2_SuppressionIsDisjunction ==
    \A t \in TestGoroutines : (InCall(t) /\ Suppressed(t)) => calls[t] = <<>>

C2_Witness ==
    \E t \in TestGoroutines :
      /\ Finished(t) /\ Suppressed(t)
      /\ Len(snap[t].nt) = 2
      /\ \E k \in DOMAIN snap[t].st : ~Matches(snap[t].st[k], ev[t])
      /\ calls[t] = <<>>

\* two dispatches access the enc field of the same Stdout at once, one of them
\* writing it
EncRace ==
    \E t1, t2 \in TestGoroutines :
      /\ t1 # t2
      /\ idx[t1] = idx[t2]
      /\ pc[t1] = "NewEncoder"
      /\ \/ pc[t2] = "NewEncoder"
         \/ pc[t2] = "Send" /\ notifiers[idx[t2]].kind = "stdout"

\* C3: with no registration in progress, concurrent processEvent calls never
\* write state reachable from the notifiers at once, and each call for an
\* event that is not suppressed reaches each notifier exactly once.
C3_ConcurrentDispatchSafe ==
    (Writing = {} /\ mu.w = None) =>
      /\ ~EncRace
      /\ \A t \in TestGoroutines :
           (Finished(t) /\ ~Suppressed(t)) =>
              CalledIdx(t) = [j \in 1..Len(snap[t].nt) |-> j]

\* C4: a processEvent call that calls RLock while another call is inside Send
\* gets the read lock, whether or not a registration is waiting for the lock.
C4_SendBlocksOnlyRegistration ==
    [][\A t2 \in TestGoroutines :
         (/\ pc[t2] = "RLock"
          /\ pc'[t2] # "RLock"
          /\ \E t1 \in TestGoroutines : t1 # t2 /\ InSend(t1) /\ t1 \in mu.readers)
         => pc'[t2] = "range"]_vars

\* C5: while an addStash or addNotifier call is inside its critical section no
\* processEvent call and no other registration call is inside its own, and a
\* processEvent call sees the stash map and notifier list it started with.
C5_RegistrationSerialized ==
    /\ Writing # {} => (Cardinality(Writing) = 1 /\ Reading = {})
    /\ \A t \in Reading : snap[t] = TakeSnap

C5_Witness ==
    /\ \E t \in TestGoroutines : pc[t] = "blocked"
    /\ \E a, b \in StashGoroutines : pc[a] = "put" /\ pc[b] = "Lock"
    /\ Len(notifiers) = 2

\* C6: the k-th addStash call to return returns k, the stash map's keys are
\* 1..n, and the id stashPOSTHandler reports is the key its stash is stored under.
C6_StashIds ==
    /\ \A k \in DOMAIN idLog : idLog[k] = k
    /\ DOMAIN stashes = 1..Cardinality(DOMAIN stashes)
    /\ \A t \in StashGoroutines :
         /\ pc[t] = "Unlock" =>
              (count[t] + 1 \in DOMAIN stashes /\ stashes[count[t] + 1] = arg[t])
         /\ (pc[t] = "done" /\ resp[t].path = "/stash" /\ resp[t].code = 200) =>
              (resp[t].id \in DOMAIN stashes /\ stashes[resp[t].id] = arg[t])

C6_Witness ==
    /\ idLog = <<1, 2>>
    /\ \E a, b \in StashGoroutines :
         /\ pc[a] = "done" /\ resp[a] = [path |-> "/stash", code |-> 200, id |-> 1]
         /\ arg[a] = sName
         /\ pc[b] = "done" /\ resp[b] = [path |-> "/stash", code |-> 200, id |-> 2]
         /\ arg[b] = sEmpty
    /\ \E t \in TestGoroutines : InSend(t)

\* C7: a processEvent call never calls Send twice on a notifier, and when it
\* ends for an event no stash matches it has called Send exactly once on every
\* registered notifier, also when a Send returned an error.
C7_OneShot ==
    \A t \in TestGoroutines :
      /\ \A i, j \in DOMAIN calls[t] : i # j => calls[t][i][1] # calls[t][j][1]
      /\ (Finished(t) /\ ~Suppressed(t)) =>
            \A n \in 1..Len(snap[t].nt) :
               Cardinality({j \in DOMAIN calls[t] : calls[t][j][1] = n}) = 1

C7_Witness ==
    \E t \in TestGoroutines :
      /\ Finished(t) /\ ~Suppressed(t)
      /\ Len(snap[t].nt) = 2
      /\ calls[t] = <<(<<1, "ok">>), (<<2, "err">>)>>

\* the names of the notifiers t has called Send on, in call order
CalledNames(t) == [j \in DOMAIN calls[t] |-> Name(notifiers[calls[t][j][1]])]

\* s is a prefix of r
IsPrefix(s, r) == Len(s) <= Len(r) /\ \A j \in DOMAIN s : s[j] = r[j]

\* C8: within a processEvent call the Send calls are made in registration
\* order, each after the previous one returned, and for an event that is not
\* suppressed every registered notifier has been attempted when the call ends.
C8_RegistrationOrder ==
    \A t \in TestGoroutines :
      InCall(t) =>
        /\ IsPrefix(CalledNames(t), regOrder)
        /\ \A j \in DOMAIN calls[t] : j < Len(calls[t]) => calls[t][j][2] # "called"
        /\ (Finished(t) /\ ~Suppressed(t)) => CalledNames(t) = regOrder

C8_Witness ==
    \E t \in TestGoroutines :
      /\ Finished(t) /\ ~Suppressed(t)
      /\ regOrder = <<"Hipchat", "stdout">>
      /\ calls[t] = <<(<<1, "err">>), (<<2, "ok">>)>>

\* C9: discard returns true iff the rule's non-empty EventName equals the
\* event's event name or the rule's non-empty Username equals the event's user
\* name; the reserved fields and the destination do not enter.
C9_DiscardIsMatch ==
    dpc = "return" => (dResult <=> Matches(dStash, dEvent))

C9_Witness ==
    /\ dpc = "return"
    /\ dResult
    /\ dStash.EventName = "DeleteBucket" /\ dStash.Username = ""
    /\ dStash.Regex # "" /\ dStash.Destinations = <<"stdout">>
    /\ dDest = "Hipchat"

\* a stash with no field set
IsEmptyStash(st) == st = MkStash("", "")

\* C10: a stash with no field set suppresses no event, also one whose names are
\* absent or empty, and with only such stashes registered a processEvent call
\* calls Send on every notifier.
C10_EmptyStashInert ==
    /\ \A e \in DiscardEvents, d \in DestNames : ~Discard(MkStash("", ""), e, d)
    /\ \A t \in TestGoroutines :
         (Finished(t) /\ \A k \in DOMAIN snap[t].st : IsEmptyStash(snap[t].st[k]))
            => CalledIdx(t) = [j \in 1..Len(snap[t].nt) |-> j]

C10_Witness ==
    \E t \in TestGoroutines :
      /\ Finished(t)
      /\ DOMAIN snap[t].st = {1, 2}
      /\ \A k \in DOMAIN snap[t].st : IsEmptyStash(snap[t].st[k])
      /\ ev[t] = eBlank
      /\ Len(calls[t]) = 2

\* C11: a request to /test whose body does not decode is answered 400 and is
\* over: its goroutine does not enter processEvent, holds no lock and has made
\* no Send call.
C11_TestDecodeFailure ==
    \A t \in TestGoroutines :
      resp[t] = TestBadRequest =>
        /\ pc[t] = "done"
        /\ calls[t] = <<>>
        /\ t \notin mu.readers \cup mu.blocked

C11_Witness ==
    \E t \in TestGoroutines :
      /\ resp[t] = TestBadRequest
      /\ pc[t] = "done"
      /\ Len(notifiers) = 2
      /\ stashes = <<>>

\* C12: the answer to a /test request whose event decoded is 200 whatever the
\* Send calls of its processEvent call returned, and nothing is written to the
\* submitter while the call runs.
C12_ErrorsSwallowed ==
    [][\A t \in TestGoroutines :
         /\ InCall(t) => resp[t] = NoResp
         /\ (pc[t] = "RUnlock" /\ pc'[t] = "done") =>
               resp'[t] = [path |-> "/test", code |-> 200, id |-> 0]]_vars

C12_Witness ==
    \E t \in TestGoroutines :
      /\ pc[t] = "RUnlock"
      /\ calls[t] = <<(<<1, "err">>), (<<2, "err">>)>>
      /\ resp[t] = NoResp

\* C13: Hipchat.Send returns an error if the HTTP call cannot be made, if the
\* response cannot be read or if the status code is >= 300, and nil otherwise.
C13_SendErrors ==
    hpc = "returned" =>
      (hErr = "err" <=>
         \/ hOut.doFails
         \/ hOut.readFails
         \/ hOut.statusCode >= 300)

\* the keys NewHipchat requires are all present and not empty
Complete(c) == \A k \in {"room", "token", "from"} : k \in DOMAIN c /\ c[k] # ""

\* C14: NewHipchat returns an error and no notifier if room, token or from is
\* missing or empty; otherwise it returns a notifier with these values, whose
\* endpoint is the configured one, or the default if that is missing or empty.
C14_NewHipchat ==
    hpc # "NewHipchat" =>
      IF Complete(hConfig)
      THEN /\ hNew.err = Nil
           /\ hNew.h.RoomID = hConfig["room"]
           /\ hNew.h.Token = hConfig["token"]
           /\ hNew.h.From = hConfig["from"]
           /\ hNew.h.Endpoint =
                 IF "endpoint" \in DOMAIN hConfig /\ hConfig["endpoint"] # ""
                 THEN hConfig["endpoint"]
                 ELSE "https://api.hipchat.com"
      ELSE /\ hNew.err # Nil
           /\ "h" \notin DOMAIN hNew
           /\ hpc = "failed"

C14_Witness ==
    /\ hpc = "Send"
    /\ Complete(hConfig)
    /\ "endpoint" \in DOMAIN hConfig /\ hConfig["endpoint"] = ""
    /\ hNew.h.Endpoint = "https://api.hipchat.com"

\* the entries of a configuration that Load rejects: a type name it does not
\* know, or a hipchat entry that lacks a required key
BadEntries(c) ==
    { k \in DOMAIN c : \/ k \notin {"stdout", "hipchat"}
                       \/ k = "hipchat" /\ ~Complete(c[k]) }

\* C15: when the configuration read holds an entry Load rejects, the process
\* never serves, whatever valid entries it holds and in whatever order they are
\* visited: until main exits the rejected entry is still to be visited, and no
\* handler runs unless main serves.
C15_ConfigErrorFatal ==
    /\ BadEntries(config) # {} =>
          /\ pc["main"] # "serving"
          /\ pc["main"] \notin {"main", "exited"} => BadEntries(todo) # {}
    /\ pc["main"] # "serving" =>
          \A t \in Handlers : pc[t] = "idle" /\ resp[t] = NoResp

C15_Witness ==
    /\ pc["main"] = "exited"
    /\ "hipchat" \in BadEntries(config)
    /\ "stdout" \in DOMAIN config
    /\ Len(notifiers) = 1

\* C16: the step in which stashPOSTHandler answers 400 to a body that does not
\* decode ends the request and leaves the stash map, the ids given out, the
\* notifier list and the lock as they were.
C16_StashDecodeFailure ==
    [][\A t \in StashGoroutines :
         (resp[t] # StashBadRequest /\ resp'[t] = StashBadRequest) =>
            /\ pc'[t] = "done"
            /\ stashes' = stashes
            /\ idLog' = idLog
            /\ notifiers' = notifiers
            /\ mu' = mu]_vars

C16_Witness ==
    \E t \in StashGoroutines :
      /\ resp[t] = StashBadRequest
      /\ pc[t] = "done"
      /\ DOMAIN stashes = {1}
      /\ idLog = <<1>>
      /\ Len(notifiers) = 2

\* the notifier objects of a list, in order, whatever their fields hold
Kinds(nts) == [i \in DOMAIN nts |-> nts[i].kind]

\* C17: every step leaves the notifiers registered so far in place and in
\* order; the list changes only in addNotifier's critical section, by one
\* entry appended at the end.
C17_AppendOnly ==
    [][/\ IsPrefix(Kinds(notifiers), Kinds(notifiers'))
       /\ Kinds(notifiers') # Kinds(notifiers) =>
             /\ pc["main"] = "append"
             /\ mu.w = "main" /\ mu.writing
             /\ Kinds(notifiers') = Append(Kinds(notifiers), pending.kind)]_vars

C17_Witness ==
    /\ Len(notifiers) = 2
    /\ DOMAIN stashes = {1, 2}
    /\ \E t \in TestGoroutines : pc[t] = "RUnlock" /\ Len(calls[t]) = 2
    /\ \E i \in DOMAIN notifiers : notifiers[i].kind = "stdout" /\ notifiers[i].enc # Nil

\* C18: when a processEvent call ends it has called Send on every registered
\* notifier, in order, or on none, also when addStash calls arrive while it
\* runs; it called none exactly when a stash registered then matches the event.
C18_UniformSuppression ==
    \A t \in TestGoroutines :
      Finished(t) =>
        /\ \/ calls[t] = <<>>
           \/ CalledIdx(t) = [j \in 1..Len(notifiers) |-> j]
        /\ (calls[t] = <<>> /\ notifiers # <<>>) =>
              \E k \in DOMAIN stashes : Matches(stashes[k], ev[t])

C18_Witness ==
    \E t \in TestGoroutines :
      /\ Finished(t)
      /\ Len(calls[t]) = 2
      /\ ev[t] = eDelete
      /\ DOMAIN stashes = {1} /\ stashes[1] = sUser
      /\ \E a \in StashGoroutines : pc[a] = "LockWait" /\ arg[a] = sName

\* C19: a stash in the map stays under its id, unchanged, over every step, and
\* a processEvent call that holds the read lock after the step, for an event
\* the stash matches, has made no Send call.
C19_StashStaysInForce ==
    [][\A k \in DOMAIN stashes :
         /\ k \in DOMAIN stashes'
         /\ stashes'[k] = stashes[k]
         /\ \A t \in TestGoroutines :
              (InCall(t)' /\ Matches(stashes[k], ev'[t])) => calls'[t] = <<>>]_vars

C19_Witness ==
    \E t \in TestGoroutines :
      /\ Finished(t)
      /\ ev[t] = eDelete
      /\ calls[t] = <<>>
      /\ Len(notifiers) = 2
      /\ DOMAIN stashes = {1, 2}
      /\ stashes[1] = sName /\ stashes[2] = sUser
      /\ idLog = <<1, 2>>

\* the positions of main inside addNotifier
InAddNotifier == {"Lock", "LockWait", "append", "Unlock"}

\* C20: with every Send returning, no goroutine stays inside a processEvent,
\* addStash or addNotifier call for ever, whatever requests arrive meanwhile:
\* each handler is again and again outside its call, main again and again
\* outside addNotifier, and a reader is parked only while a writer has the
\* lock or waits for it.
C20_Progress ==
    /\ \A t \in Handlers : []<>(pc[t] \in {"idle", "done"})
    /\ []<>(pc["main"] \notin InAddNotifier)
    /\ [](mu.blocked # {} => mu.w # None)

C20_Witness ==
    /\ \E a \in StashGoroutines : pc[a] = "LockWait"
    /\ \E t \in TestGoroutines : pc[t] = "blocked"
    /\ \E t \in TestGoroutines : InSend(t)

====
